---- MODULE Spec2Model ----
(***************************************************************************)
(* Model of the YouTube transcriber pipeline: the download, transcription  *)
(* and summarization utilities (utils/), the LangGraph pipeline of         *)
(* transcribe.py, the batch driver of batch_transcriber.py, the notebook   *)
(* wrapper and the CrewAI entry point of app/main.py.                      *)
(*                                                                         *)
(* Python strings are modelled as sequences of tokens (a token is a piece  *)
(* of text the code never looks inside): "" is <<>>, concatenation is \o,  *)
(* 'x in s' is membership of the token x among the tokens of s.            *)
(***************************************************************************)
EXTENDS Integers, Sequences, FiniteSets, TLC

VARIABLES
  mode,      \* the entry point that runs: graph, notebook, batch, crew, retry, router
  pc,        \* control position
  st,        \* the AgentState / result dict of the current invocation
  fs,        \* the file system: path -> content, for the files that exist
  urls,      \* the source references given by the caller
  use_mock,  \* process_youtube_urls' use_mock argument
  idx,       \* process_youtube_urls' loop index i (1-based position in urls)
  results,   \* process_youtube_urls' results list
  ret,       \* what the last utility call returned or raised
  dl,        \* locals of download_youtube_audio
  rwb,       \* locals and arguments of retry_with_backoff
  log,       \* the external calls and sleeps of the stage that runs (or ran last)
  stages,    \* the stage events of the current invocation: <<stage, event, path>>,
             \* event being start, return or raise (the stage's call raised)
  calls,     \* per invocation: the transcription API calls (api), the summarization
             \* model calls (llm), whether an external call or a file operation
             \* failed (failed), the stages whose fallback could not be produced
  routed,    \* the last value router returned
  outcome,   \* what the caller of the entry point received
  sleeping,  \* the length of the sleep in progress, in tenths of a second (0: none)
  waits      \* process_youtube_urls: the inter-request waits completed

vars == <<mode, pc, st, fs, urls, use_mock, idx, results, ret, dl, rwb, log,
          stages, calls, routed, outcome, sleeping, waits>>

inputs == <<mode, urls, use_mock>>
batchv == <<idx, results, waits>>
pipev  == <<st, stages, routed, outcome>>

----------------------------------------------------------------------------
(* Strings and paths *)

None == <<"<None>">>

Truthy(x) == x # <<>> /\ x # None

Range(s) == {s[i] : i \in 1..Len(s)}

Contains(s, tok) == tok \in Range(s)

\* s.split(tok)[-1]: what follows the last occurrence of tok (s itself if none)
AfterLast(s, tok) ==
  IF ~Contains(s, tok) THEN s
  ELSE LET k == CHOOSE i \in 1..Len(s) :
                  s[i] = tok /\ \A j \in (i+1)..Len(s) : s[j] # tok
       IN  SubSeq(s, k + 1, Len(s))

\* s.split(tok)[0]: what precedes the first occurrence of tok (s itself if none)
BeforeFirst(s, tok) ==
  IF ~Contains(s, tok) THEN s
  ELSE LET k == CHOOSE i \in 1..Len(s) :
                  s[i] = tok /\ \A j \in 1..(i-1) : s[j] # tok
       IN  SubSeq(s, 1, k - 1)

\* s.replace(tok, "")
Remove(s, tok) == SelectSeq(s, LAMBDA t : t # tok)

Exts == {".mp3", ".txt", ".mp4"}

\* os.path.join(dir, name)
PathJoin(dir, name) == <<dir, "/">> \o name

\* os.path.basename(path)
Basename(path) == AfterLast(path, "/")

\* os.path.splitext(name)[0]
SplitextStem(name) ==
  IF Len(name) > 0 /\ name[Len(name)] \in Exts
  THEN SubSeq(name, 1, Len(name) - 1) ELSE name

----------------------------------------------------------------------------
(* Inputs *)

UrlA == <<"https://www.youtube.com/watch?", "v=", "a">>
UrlB == <<"https://www.youtube.com/watch?", "v=", "b", "&", "t=1">>
UrlC == <<"https://youtu.be/c">>
UrlD == <<"https://youtu.be/d">>

Urls == {UrlA, UrlB, UrlC, UrlD}

Prompt == <<"Summarize the key points">>

MockPhrase == "This is a mock transcript for testing purposes"

\* texts the transcription API may return (transcript.text, line 71): nothing
\* for audio without speech, spoken words, words that hold the mock phrase
ApiTexts == {<<>>, <<"spoken words">>, <<"he said: ", MockPhrase>>}

\* text the summarization model returns for a transcript
LlmSummary(text) == <<"summary of: ">> \o text

----------------------------------------------------------------------------
(* Return values and exceptions of the utility functions *)

NoCalls == [api |-> 0, llm |-> 0, failed |-> FALSE, fbfail |-> {}]

\* calls c after an external call or a file operation that failed (if bad)
Failed(c, bad) == [c EXCEPT !.failed = @ \/ bad]

NoRet == [kind |-> "none", path |-> <<>>, text |-> <<>>, etype |-> "", msg |-> <<>>]

Return(path, text) ==
  [kind |-> "return", path |-> path, text |-> text, etype |-> "", msg |-> <<>>]

Raise(etype, msg) ==
  [kind |-> "raise", path |-> <<>>, text |-> <<>>, etype |-> etype, msg |-> msg]

----------------------------------------------------------------------------
(* utils/youtube_downloader.py *)

DownloadMaxRetries == 3

Methods == <<"direct", "alternative">>

\* the title YouTube reports for a video, cleaned for use as a file name
VideoTitle(url) ==
  CASE url = UrlA -> <<"Video A">>
    [] url = UrlB -> <<"Video B">>
    [] url = UrlC -> <<"Video C">>
    [] OTHER     -> <<"Video D">>

\* video_id = youtube_url.split("v=")[-1].split("&")[0] if "v=" in youtube_url else ...
VideoIdOr(url, default) ==
  IF Contains(url, "v=") THEN BeforeFirst(AfterLast(url, "v="), "&") ELSE default

VideoId(url) == VideoIdOr(url, <<"unknown_video">>)

\* output_path of the yt-dlp method and of the pytube 'alternative' method
IdAudioPath(url) == PathJoin("downloads", VideoId(url) \o <<".mp3">>)

\* output_path of the pytube 'direct' method
TitleAudioPath(url) == PathJoin("downloads", VideoTitle(url) \o <<".mp3">>)

MethodPath(method, url) ==
  IF method = "direct" THEN TitleAudioPath(url) ELSE IdAudioPath(url)

FallbackPath(video_id) ==
  PathJoin("downloads", <<"fallback_">> \o video_id \o <<".mp3">>)

EmergencyPath == PathJoin("cwd", <<"emergency_fallback", ".mp3">>)

AudioContent == <<"audio">>
FallbackAudioContent == <<"This is a fallback audio file for testing purposes.">>
EmergencyAudioContent == <<"Emergency fallback file">>

\* f with path p written (created or overwritten) with content c
Write(f, p, c) == [q \in (DOMAIN f) \cup {p} |-> IF q = p THEN c ELSE f[q]]

Exists(f, p) == p \in DOMAIN f

\* the outcomes of one pytube attempt: "regex" is RegexMatchError (raised by
\* YouTube(url)), "unavailable" is VideoUnavailable (raised when the title or the
\* streams are read), "transient" is any other exception, "ok" is no exception
PytubeOutcomes == {"ok", "regex", "unavailable", "transient"}

\* the except clause that catches a failed attempt: lines 153 and 158
FailureKind(o) == IF o \in {"regex", "unavailable"} THEN "nonretryable" ELSE "transient"

\* a retry loop with the general except clause only: every failure is retried
AfterFailedAttempt_retries_all(o, retry_count, max_retries) ==
  IF retry_count < max_retries - 1 THEN "sleep" ELSE "break"

\* the except clauses of the retry loop: what follows a failed attempt
AfterFailedAttempt(o, retry_count, max_retries) ==
  IF FailureKind(o) = "nonretryable" THEN "break"
  ELSE IF retry_count < max_retries - 1 THEN "sleep" ELSE "break"

\* where the loops go after a break out of the retry loop of method number m
\* a break that gives up on pytube after the first method
AfterBreak_single_method(m) == "dl_fallback"

AfterBreak(m) == IF m < Len(Methods) THEN "dl_attempt" ELSE "dl_fallback"

\* create_fallback_audio_file: w1, w2 tell whether the fallback file and the
\* emergency file can be written
CreateFallbackAudioFile(video_id, f, w1, w2) ==
  IF w1 THEN [ret |-> Return(FallbackPath(video_id), <<>>),
              fs  |-> Write(f, FallbackPath(video_id), FallbackAudioContent),
              log |-> <<"fallback_write">>]
  ELSE IF w2 THEN [ret |-> Return(EmergencyPath, <<>>),
                   fs  |-> Write(f, EmergencyPath, EmergencyAudioContent),
                   log |-> <<"fallback_write_failed", "emergency_write">>]
  ELSE [ret |-> Raise("OSError", <<"cannot write emergency fallback">>),
        fs  |-> f,
        log |-> <<"fallback_write_failed", "emergency_write_failed">>]

NoDl == [video_id |-> <<>>, method |-> 0, retry_count |-> 0]

\* lines 26-39: the output directory, the video id, the yt-dlp probe
DlEnter ==
  /\ pc = "dl_enter"
  /\ \E mk \in BOOLEAN, has_yt_dlp \in BOOLEAN :
       IF ~mk
       THEN /\ ret' = Raise("OSError", <<"cannot create downloads">>)
            /\ pc' = "dl_done"
            /\ dl' = NoDl
            /\ calls' = Failed(calls, TRUE)
       ELSE /\ ret' = NoRet
            /\ dl' = [video_id |-> VideoId(st.youtube_url), method |-> 1,
                      retry_count |-> 0]
            /\ pc' = IF has_yt_dlp THEN "dl_ytdlp" ELSE "dl_attempt"
            /\ calls' = calls
  /\ log' = <<>>
  /\ UNCHANGED <<inputs, batchv, pipev, fs, rwb, sleeping>>

\* the outcomes of the yt-dlp subprocess: exit code 0 with the mp3 written, exit
\* code 0 with no mp3 at output_path (the code checks the exit code only), a
\* non-zero exit code, an exception of subprocess.run
YtDlpOutcomes == {"zero", "zero_no_file", "nonzero", "exception"}

\* the backoff with 2 * retry_count for 2 ** retry_count
DlBackoff_linear(retry_count, j) == 10 * (2 * retry_count) + j

\* the backoff of line 160, (2 ** retry_count) + (random.random() * 0.5), in
\* tenths of a second; j is the jitter in tenths of a second
DlBackoff(retry_count, j) == 10 * (2 ^ retry_count) + j

DlJitters == {0, 4}

\* lines 41-65: the yt-dlp subprocess
DlYtDlp ==
  /\ pc = "dl_ytdlp"
  /\ \E r \in YtDlpOutcomes :
       IF r \in {"zero", "zero_no_file"}
       THEN /\ fs' = IF r = "zero"
                     THEN Write(fs, IdAudioPath(st.youtube_url), AudioContent)
                     ELSE fs
            /\ ret' = Return(IdAudioPath(st.youtube_url), <<>>)
            /\ pc' = "dl_done"
            /\ dl' = NoDl
            /\ calls' = calls
       ELSE /\ pc' = "dl_attempt"
            /\ calls' = Failed(calls, TRUE)
            /\ UNCHANGED <<fs, ret, dl>>
  /\ log' = Append(log, "yt-dlp")
  /\ UNCHANGED <<inputs, batchv, pipev, rwb, sleeping>>

\* lines 70-167: one pass of the body of the retry loop
DlAttempt ==
  /\ pc = "dl_attempt"
  /\ \E o \in PytubeOutcomes :
       LET method == Methods[dl.method]
           path   == MethodPath(method, st.youtube_url)
           ev     == IF method = "direct" THEN <<"lookup:direct">>
                     ELSE <<"lookup:alternative">>
       IN
       /\ IF o = "ok"
          THEN /\ IF method = "direct" /\ Exists(fs, path)
                  THEN /\ fs' = fs
                       /\ log' = log \o ev
                  ELSE /\ fs' = Write(fs, path, AudioContent)
                       /\ log' = log \o ev \o <<"stream_download">>
               /\ ret' = Return(path, <<>>)
               /\ pc' = "dl_done"
               /\ dl' = NoDl
               /\ sleeping' = 0
               /\ calls' = calls
          ELSE /\ log' = log \o ev \o <<FailureKind(o)>>
               /\ calls' = Failed(calls, TRUE)
               /\ UNCHANGED <<fs, ret>>
               /\ IF AfterFailedAttempt(o, dl.retry_count, DownloadMaxRetries) = "sleep"
                  THEN /\ pc' = "dl_sleep"
                       /\ dl' = dl
                       /\ \E j \in DlJitters :
                            sleeping' = DlBackoff(dl.retry_count, j)
                  ELSE /\ pc' = AfterBreak(dl.method)
                       /\ dl' = [dl EXCEPT !.method = @ + 1, !.retry_count = 0]
                       /\ sleeping' = 0
  /\ UNCHANGED <<inputs, batchv, pipev, rwb>>

\* line 164: time.sleep(backoff_time), then the next pass of the loop
DlSleep ==
  /\ pc = "dl_sleep"
  /\ sleeping' = 0
  /\ log' = Append(log, "sleep")
  /\ dl' = [dl EXCEPT !.retry_count = @ + 1]
  /\ pc' = "dl_attempt"
  /\ UNCHANGED <<inputs, batchv, pipev, fs, ret, rwb, calls>>

\* line 170: every method failed
DlFallback ==
  /\ pc = "dl_fallback"
  /\ \E w1 \in BOOLEAN, w2 \in BOOLEAN :
       LET r == CreateFallbackAudioFile(dl.video_id, fs, w1, w2)
       IN  /\ ret' = r.ret
           /\ fs' = r.fs
           /\ log' = log \o r.log
           /\ calls' = [Failed(calls, ~w1) EXCEPT
                          !.fbfail = IF r.ret.kind = "raise"
                                     THEN @ \cup {"download"} ELSE @]
  /\ pc' = "dl_done"
  /\ dl' = NoDl
  /\ UNCHANGED <<inputs, batchv, pipev, rwb, sleeping>>

----------------------------------------------------------------------------
(* utils/transcriber.py *)

\* lines 30-39: the transcript file of an audio file (and of a URL, if given)
TranscriptFile(audio_file_path, youtube_url) ==
  LET file_name_without_ext == SplitextStem(Basename(audio_file_path))
  IN  IF Truthy(youtube_url)
      THEN PathJoin("transcripts",
                    VideoIdOr(youtube_url, file_name_without_ext) \o <<".txt">>)
      ELSE PathJoin("transcripts", file_name_without_ext \o <<".txt">>)

\* lines 99-125: the text of a mock transcript
MockTranscript(audio_file_path, error_msg) ==
  LET base_filename == Basename(audio_file_path)
      video_id == IF Contains(base_filename, "fallback_")
                  THEN Remove(Remove(base_filename, "fallback_"), ".mp3")
                  ELSE SplitextStem(base_filename)
      message == IF error_msg # <<>>
                 THEN <<"Note: Transcription failed with error: ">> \o error_msg
                 ELSE <<>>
  IN  message \o <<MockPhrase, "The original video ID was: ">> \o video_id

\* create_mock_transcript: w tells whether the transcript file can be written
CreateMockTranscript(audio_file_path, transcript_file, error_msg, f, w) ==
  IF w THEN [ret |-> Return(transcript_file, MockTranscript(audio_file_path, error_msg)),
             fs  |-> Write(f, transcript_file, MockTranscript(audio_file_path, error_msg)),
             log |-> <<"mock_transcript">>]
  ELSE [ret |-> Return(None, <<"Error creating transcript.">>), fs |-> f,
        log |-> <<"mock_transcript_failed">>]

\* transcribe_audio without the test for an existing transcript
TrShortcut_no_exists_check(audio_file_path, tf, f) ==
  IF Contains(SplitextStem(Basename(audio_file_path)), "fallback_")
  THEN "fallback"
  ELSE "api"

\* lines 41-51: which way transcribe_audio goes for an audio file and the
\* transcript file tf
TrShortcut(audio_file_path, tf, f) ==
  IF Exists(f, tf) THEN "exists"
  ELSE IF Contains(SplitextStem(Basename(audio_file_path)), "fallback_")
       THEN "fallback"
       ELSE "api"

\* a handler that lets the OpenAI errors through to the caller
TrExcept_reraises_openai(audio_file_path, transcript_file, o, f, w) ==
  IF o = "openai_error"
  THEN [ret |-> Raise("OpenAIError", <<o>>), fs |-> f, log |-> <<>>]
  ELSE CreateMockTranscript(audio_file_path, transcript_file, <<o>>, f, w)

\* lines 82-84: the handler of the try block, for the exception o
TrExcept(audio_file_path, transcript_file, o, f, w) ==
  CreateMockTranscript(audio_file_path, transcript_file, <<o>>, f, w)

\* the youtube_url argument transcribe_audio gets from its caller: the graph
\* node passes the URL, process_youtube_urls and the crew task do not
TrUrlArg == IF mode \in {"graph", "notebook"} THEN st.youtube_url ELSE None

\* lines 27-51: the output directory, the transcript-exists shortcut and the
\* fallback-file shortcut; mk, rd, w tell whether the directory can be made,
\* the transcript read and the mock transcript written
TrEnter ==
  /\ pc = "tr_enter"
  /\ \E mk \in BOOLEAN, rd \in BOOLEAN, w \in BOOLEAN :
       LET audio == st.audio_file_path
           transcript_file == TranscriptFile(audio, TrUrlArg)
           way == TrShortcut(audio, transcript_file, fs)
       IN
       IF ~mk
       THEN /\ ret' = Raise("OSError", <<"cannot create transcripts">>)
            /\ pc' = "tr_done"
            /\ log' = <<>>
            /\ fs' = fs
            /\ calls' = Failed(calls, TRUE)
       ELSE IF way = "exists"
       THEN /\ ret' = IF rd THEN Return(transcript_file, fs[transcript_file])
                      ELSE Raise("OSError", <<"cannot read transcript">>)
            /\ pc' = "tr_done"
            /\ log' = <<"transcript_exists">>
            /\ fs' = fs
            /\ calls' = Failed(calls, ~rd)
       ELSE IF way = "fallback"
       THEN LET r == CreateMockTranscript(audio, transcript_file, <<>>, fs, w)
            IN  /\ ret' = r.ret
                /\ fs' = r.fs
                /\ pc' = "tr_done"
                /\ log' = <<"fallback_detected">> \o r.log
                /\ calls' = [Failed(calls, ~w) EXCEPT
                               !.fbfail = IF w THEN @ ELSE @ \cup {"transcription"}]
       ELSE /\ ret' = NoRet
            /\ pc' = "tr_api"
            /\ log' = <<>>
            /\ fs' = fs
            /\ calls' = calls
  /\ UNCHANGED <<inputs, batchv, pipev, dl, rwb, sleeping>>

\* the outcomes of the try block of lines 53-80: the audio file is missing, the
\* API raises an OpenAI error or another exception, the transcript cannot be
\* saved, or all is well
TrOutcomes == {"ok", "openai_error", "other_error", "save_failed"}

\* lines 53-84: the transcription API call and the handler around it
TrApi ==
  /\ pc = "tr_api"
  /\ \E o \in TrOutcomes, text \in ApiTexts, w \in BOOLEAN :
       LET audio == st.audio_file_path
           transcript_file == TranscriptFile(audio, TrUrlArg)
           missing == ~Exists(fs, audio)
           r == IF missing
                THEN TrExcept(audio, transcript_file, "FileNotFoundError", fs, w)
                ELSE TrExcept(audio, transcript_file, o, fs, w)
       IN
       IF ~missing /\ o = "ok"
       THEN /\ ret' = Return(transcript_file, text)
            /\ fs' = Write(fs, transcript_file, text)
            /\ log' = <<"api">>
            /\ calls' = [calls EXCEPT !.api = @ + 1]
       ELSE /\ ret' = r.ret
            /\ fs' = r.fs
            /\ log' = (IF missing THEN <<"audio_missing">> ELSE <<"api", o>>) \o r.log
            /\ calls' = [Failed(calls, TRUE) EXCEPT
                           !.api = IF missing THEN @ ELSE @ + 1,
                           !.fbfail = IF w \/ r.ret.kind = "raise" THEN @
                                      ELSE @ \cup {"transcription"}]
  /\ pc' = "tr_done"
  /\ UNCHANGED <<inputs, batchv, pipev, dl, rwb, sleeping>>

----------------------------------------------------------------------------
(* utils/summarizer.py *)

\* the parameters of summarize_text (line 11)
SummarizeTextParams == {"text", "prompt_instruction", "output_dir"}

\* the keyword arguments each caller passes to summarize_text
SummarizeKeywords ==
  IF mode \in {"graph", "notebook"} THEN {"youtube_url"} ELSE {}

\* lines 29-31
SummaryFile(prompt_instruction) ==
  PathJoin("summaries", <<"summary_">> \o prompt_instruction \o <<".txt">>)

\* line 98
ErrorSummaryFile(prompt_instruction) ==
  PathJoin("summaries", <<"error_summary_">> \o prompt_instruction \o <<".txt">>)

\* lines 114-129: the text of a mock summary
MockSummary(text, prompt_instruction) ==
  LET video_id == IF Contains(text, "The original video ID was: ")
                  THEN AfterLast(text, "The original video ID was: ")
                  ELSE <<"unknown">>
  IN  <<"This is a mock summary for testing purposes.", "Based on the prompt: ">>
        \o prompt_instruction \o <<"For the YouTube video with ID: ">> \o video_id

\* create_mock_summary: w tells whether the summary file can be written
CreateMockSummary(text, prompt_instruction, summary_file, f, w) ==
  IF w THEN [ret |-> Return(summary_file, MockSummary(text, prompt_instruction)),
             fs  |-> Write(f, summary_file, MockSummary(text, prompt_instruction)),
             log |-> <<"mock_summary">>]
  ELSE [ret |-> Return(None, <<"Error creating summary.">>), fs |-> f,
        log |-> <<"mock_summary_failed">>]

\* line 34: the text is a mock transcript
IsMockTranscript(text) == Contains(text, MockPhrase)

\* the call itself (binding the arguments), then lines 24-36: the output
\* directory and the mock-transcript shortcut; mk tells whether the directory
\* exists or can be made, w whether the mock summary can be written
SumEnter ==
  /\ pc = "sum_enter"
  /\ \E mk \in BOOLEAN, w \in BOOLEAN :
       LET text == st.transcript_text
           prompt == st.prompt_instruction
       IN
       IF ~(SummarizeKeywords \subseteq SummarizeTextParams)
       THEN /\ ret' = Raise("TypeError",
                       <<"summarize_text() got an unexpected keyword argument">>)
            /\ pc' = "sum_done"
            /\ log' = <<>>
            /\ fs' = fs
            /\ calls' = calls
       ELSE IF ~mk
       \* the handler of line 95 reads safe_prompt, which is not yet assigned
       THEN /\ ret' = Raise("UnboundLocalError", <<"safe_prompt">>)
            /\ pc' = "sum_done"
            /\ log' = <<>>
            /\ fs' = fs
            /\ calls' = Failed(calls, TRUE)
       ELSE IF IsMockTranscript(text)
       THEN LET r == CreateMockSummary(text, prompt, SummaryFile(prompt), fs, w)
            IN  /\ ret' = r.ret
                /\ fs' = r.fs
                /\ pc' = "sum_done"
                /\ log' = <<"mock_detected">> \o r.log
                /\ calls' = [Failed(calls, ~w) EXCEPT
                               !.fbfail = IF w THEN @ ELSE @ \cup {"summarization"}]
       ELSE /\ ret' = NoRet
            /\ pc' = "sum_llm"
            /\ log' = <<>>
            /\ fs' = fs
            /\ calls' = calls
  /\ UNCHANGED <<inputs, batchv, pipev, dl, rwb, sleeping>>

\* the outcomes of lines 38-93: the model cannot be set up (no call is made),
\* the chain raises, the summary cannot be saved, or all is well
SumOutcomes == {"ok", "init_error", "llm_error", "save_failed"}

\* lines 38-98: the summarization chain and the handler around it
SumLlm ==
  /\ pc = "sum_llm"
  /\ \E o \in SumOutcomes, w \in BOOLEAN :
       LET text == st.transcript_text
           prompt == st.prompt_instruction
           r == CreateMockSummary(text, prompt, ErrorSummaryFile(prompt), fs, w)
           called == IF o = "init_error" THEN 0 ELSE 1
       IN
       IF o = "ok"
       THEN /\ ret' = Return(SummaryFile(prompt), LlmSummary(text))
            /\ fs' = Write(fs, SummaryFile(prompt), LlmSummary(text))
            /\ log' = <<"llm">>
            /\ calls' = [calls EXCEPT !.llm = @ + 1]
       ELSE /\ ret' = r.ret
            /\ fs' = r.fs
            /\ log' = (IF o = "init_error" THEN <<o>> ELSE <<"llm", o>>) \o r.log
            /\ calls' = [Failed(calls, TRUE) EXCEPT
                           !.llm = @ + called,
                           !.fbfail = IF w THEN @ ELSE @ \cup {"summarization"}]
  /\ pc' = "sum_done"
  /\ UNCHANGED <<inputs, batchv, pipev, dl, rwb, sleeping>>

----------------------------------------------------------------------------
(* batch_transcriber.py: retry_with_backoff *)

Min(a, b) == IF a < b THEN a ELSE b

\* except (RateLimitError, OpenAIError)
OpenAIErrors == {"RateLimitError", "OpenAIError"}

NoRwb == [max_retries |-> 0, initial_delay |-> 0, max_delay |-> 0, attempt |-> 0,
          delay |-> 0, log |-> <<>>, delays |-> <<>>, slept |-> <<>>]

\* lines 46-47: the state of a call of retry_with_backoff
RwbStart(max_retries, initial_delay, max_delay) ==
  [max_retries |-> max_retries, initial_delay |-> initial_delay,
   max_delay |-> max_delay, attempt |-> 0, delay |-> initial_delay,
   log |-> <<>>, delays |-> <<>>, slept |-> <<>>]

\* retry_with_backoff that re-raises an OpenAI error without retrying
RwbOnResult_never_retries(r, l) ==
  IF r.kind = "return" THEN "return" ELSE "raise"

\* lines 50-66: what follows a call of func that returned or raised r
RwbOnResult(r, l) ==
  IF r.kind = "return" THEN "return"
  ELSE IF r.etype \in OpenAIErrors
       THEN IF l.attempt < l.max_retries - 1 THEN "sleep" ELSE "raise"
       ELSE "raise"

\* line 60
RwbNextDelay(delay, max_delay) == Min(delay * 2, max_delay)

\* lines 56-57: wait_time in tenths of a second; the jitter, uniform in
\* [0, 0.1 * delay], is taken at its two ends
RwbWaitTimes(delay) == {10 * delay, 10 * delay + delay}

\* line 49: the head of the for loop; the function ends, returning None, when
\* the range is exhausted
RwbLoop ==
  /\ pc = "rwb_loop"
  /\ IF rwb.attempt < rwb.max_retries
     THEN /\ pc' = IF mode = "retry" THEN "func" ELSE "tr_enter"
          /\ rwb' = [rwb EXCEPT !.log = Append(@, "call")]
          /\ ret' = NoRet
     ELSE /\ pc' = "rwb_done"
          /\ rwb' = rwb
          /\ ret' = [NoRet EXCEPT !.kind = "return_none"]
  /\ UNCHANGED <<inputs, batchv, pipev, fs, dl, log, calls, sleeping>>

\* the outcomes of the function retry_with_backoff is given, when the function
\* is not transcribe_audio
FuncOutcomes == {"return", "RateLimitError", "OpenAIError", "ValueError"}

\* line 51, for a function that is not transcribe_audio
Func ==
  /\ pc = "func"
  /\ \E o \in FuncOutcomes :
       ret' = IF o = "return" THEN Return(<<>>, <<"result">>)
              ELSE Raise(o, <<o>>)
  /\ pc' = "func_done"
  /\ UNCHANGED <<inputs, batchv, pipev, fs, dl, rwb, log, calls, sleeping>>

\* lines 51-66: func has returned or raised
RwbAfterCall ==
  /\ mode \in {"batch", "retry"}
  /\ pc = IF mode = "retry" THEN "func_done" ELSE "tr_done"
  /\ LET what == RwbOnResult(ret, rwb)
     IN  IF what = "sleep"
         THEN /\ pc' = "rwb_sleep"
              /\ \E t \in RwbWaitTimes(rwb.delay) : sleeping' = t
         ELSE /\ pc' = "rwb_done"
              /\ sleeping' = 0
  /\ UNCHANGED <<inputs, batchv, pipev, fs, ret, dl, rwb, log, calls>>

\* lines 59-60: time.sleep(wait_time) returns; the delay doubles
RwbSleep ==
  /\ pc = "rwb_sleep"
  /\ rwb' = [rwb EXCEPT !.log = Append(@, "sleep"),
                        !.delays = Append(@, rwb.delay),
                        !.slept = Append(@, sleeping),
                        !.delay = RwbNextDelay(rwb.delay, rwb.max_delay),
                        !.attempt = @ + 1]
  /\ sleeping' = 0
  /\ pc' = "rwb_loop"
  /\ UNCHANGED <<inputs, batchv, pipev, fs, ret, dl, log, calls>>

----------------------------------------------------------------------------
(* transcribe.py: the AgentState, the nodes, the router and the graph *)

\* initial_state (transcribe.py 203-212, notebook_transcriber.py 36-45,
\* batch_transcriber.py 108-117)
InitialState(url, prompt) ==
  [youtube_url |-> url, prompt_instruction |-> prompt, audio_file_path |-> <<>>,
   transcript_text |-> <<>>, transcript_file |-> <<>>, summary |-> <<>>,
   current_step |-> "download", error |-> <<>>]

NoState == InitialState(<<>>, <<>>)

\* a youtube_downloader that returns a new state holding its own fields only
youtube_downloader_fresh_state(state, r) ==
  IF r.kind = "return"
  THEN [InitialState(<<>>, <<>>) EXCEPT !.audio_file_path = r.path,
                                        !.current_step = "transcription"]
  ELSE [InitialState(<<>>, <<>>) EXCEPT
          !.error = <<"Error downloading YouTube video: ">> \o r.msg,
          !.current_step = "end"]

\* youtube_downloader, given what download_youtube_audio returned or raised
youtube_downloader(state, r) ==
  IF r.kind = "return"
  THEN [state EXCEPT !.audio_file_path = r.path, !.current_step = "transcription"]
  ELSE [state EXCEPT !.error = <<"Error downloading YouTube video: ">> \o r.msg,
                     !.current_step = "end"]

\* an audio_transcriber whose except clause builds its result from a fresh
\* state and not from the state it was given
audio_transcriber_drops_state(state, r) ==
  IF r.kind = "return"
  THEN [state EXCEPT !.transcript_file = r.path, !.transcript_text = r.text,
                     !.current_step = "summarization"]
  ELSE [InitialState(state.youtube_url, state.prompt_instruction) EXCEPT
          !.error = <<"Error transcribing audio: ">> \o r.msg,
          !.current_step = "end"]

\* audio_transcriber, given what transcribe_audio returned or raised
audio_transcriber(state, r) ==
  IF r.kind = "return"
  THEN [state EXCEPT !.transcript_file = r.path, !.transcript_text = r.text,
                     !.current_step = "summarization"]
  ELSE [state EXCEPT !.error = <<"Error transcribing audio: ">> \o r.msg,
                     !.current_step = "end"]

\* a content_summarizer whose except clause leaves str(e) out of the message
content_summarizer_drops_text(state, r) ==
  IF r.kind = "return"
  THEN [state EXCEPT !.summary = r.text, !.current_step = "end"]
  ELSE [state EXCEPT !.error = <<"Error summarizing transcript: ">>,
                     !.current_step = "end"]

\* content_summarizer, given what summarize_text returned or raised
content_summarizer(state, r) ==
  IF r.kind = "return"
  THEN [state EXCEPT !.summary = r.text, !.current_step = "end"]
  ELSE [state EXCEPT !.error = <<"Error summarizing transcript: ">> \o r.msg,
                     !.current_step = "end"]

\* a router that looks at current_step only
router_ignores_error(state) == state.current_step

\* lines 113-118
router(state) ==
  IF "error" \in DOMAIN state /\ Truthy(state.error) THEN "end"
  ELSE state.current_step

\* the edges with the download node wired to the summarization node
Edges_skip_transcription ==
  [download      |-> [transcription |-> "node_summarization", end |-> "END"],
   transcription |-> [summarization |-> "node_summarization", end |-> "END"],
   summarization |-> [end |-> "END"]]

\* the conditional edges of create_youtube_processing_graph
Edges ==
  [download      |-> [transcription |-> "node_transcription", end |-> "END"],
   transcription |-> [summarization |-> "node_summarization", end |-> "END"],
   summarization |-> [end |-> "END"]]

EdgeTarget(node, r) ==
  IF r \in DOMAIN Edges[node] THEN Edges[node][r] ELSE "KeyError"

LastStage == stages[Len(stages)][1]

\* the event that a stage's call returned or raised r
StageEnd(stage, r) ==
  IF r.kind = "return" THEN <<stage, "return", r.path>> ELSE <<stage, "raise", <<>>>>

StageStart(stage) == <<stage, "start", <<>>>>

\* graph.invoke(initial_state), and around it transcribe_video of
\* notebook_transcriber.py: built tells whether
\* create_youtube_processing_graph returned
Invoke ==
  /\ pc = "invoke"
  /\ \E built \in BOOLEAN :
       IF mode = "notebook" /\ ~built
       THEN /\ st' = [error |-> <<"An error occurred: ", "graph">>,
                      current_step |-> "end"]
            /\ outcome' = "state"
            /\ pc' = "returned"
       ELSE /\ st' = InitialState(urls[1], Prompt)
            /\ outcome' = outcome
            /\ pc' = "node_download"
  /\ stages' = <<>>
  /\ calls' = NoCalls
  /\ UNCHANGED <<inputs, batchv, fs, ret, dl, rwb, log, routed, sleeping>>

NodeDownloadStart ==
  /\ pc = "node_download"
  /\ stages' = Append(stages, StageStart("download"))
  /\ pc' = "dl_enter"
  /\ UNCHANGED <<inputs, batchv, st, routed, outcome, fs, ret, dl, rwb, log,
                 calls, sleeping>>

NodeDownloadEnd ==
  /\ mode \in {"graph", "notebook"}
  /\ pc = "dl_done"
  /\ st' = youtube_downloader(st, ret)
  /\ stages' = Append(stages, StageEnd("download", ret))
  /\ pc' = "route"
  /\ ret' = NoRet
  /\ log' = <<>>
  /\ UNCHANGED <<inputs, batchv, routed, outcome, fs, dl, rwb, calls, sleeping>>

NodeTranscriptionStart ==
  /\ pc = "node_transcription"
  /\ stages' = Append(stages, StageStart("transcription"))
  /\ pc' = "tr_enter"
  /\ UNCHANGED <<inputs, batchv, st, routed, outcome, fs, ret, dl, rwb, log,
                 calls, sleeping>>

\* the transcription node without its try/except: the exception of
\* transcribe_audio leaves the graph
NodeTranscriptionEnd_propagates ==
  /\ mode \in {"graph", "notebook"}
  /\ pc = "tr_done"
  /\ IF ret.kind = "raise"
     THEN /\ st' = st
          /\ outcome' = "raised"
          /\ pc' = "returned"
     ELSE /\ st' = audio_transcriber(st, ret)
          /\ outcome' = outcome
          /\ pc' = "route"
  /\ stages' = Append(stages, StageEnd("transcription", ret))
  /\ ret' = NoRet
  /\ log' = <<>>
  /\ UNCHANGED <<inputs, batchv, routed, fs, dl, rwb, calls, sleeping>>

\* lines 60-84
NodeTranscriptionEnd ==
  /\ mode \in {"graph", "notebook"}
  /\ pc = "tr_done"
  /\ st' = audio_transcriber(st, ret)
  /\ stages' = Append(stages, StageEnd("transcription", ret))
  /\ pc' = "route"
  /\ ret' = NoRet
  /\ log' = <<>>
  /\ UNCHANGED <<inputs, batchv, routed, outcome, fs, dl, rwb, calls, sleeping>>

NodeSummarizationStart ==
  /\ pc = "node_summarization"
  /\ stages' = Append(stages, StageStart("summarization"))
  /\ pc' = "sum_enter"
  /\ UNCHANGED <<inputs, batchv, st, routed, outcome, fs, ret, dl, rwb, log,
                 calls, sleeping>>

NodeSummarizationEnd ==
  /\ mode \in {"graph", "notebook"}
  /\ pc = "sum_done"
  /\ st' = content_summarizer(st, ret)
  /\ stages' = Append(stages, StageEnd("summarization", ret))
  /\ pc' = "route"
  /\ ret' = NoRet
  /\ log' = <<>>
  /\ UNCHANGED <<inputs, batchv, routed, outcome, fs, dl, rwb, calls, sleeping>>

\* the conditional edge after a node: router, then the edge it names
Route ==
  /\ pc = "route"
  /\ routed' = router(st)
  /\ pc' = IF mode = "router" THEN "returned" ELSE EdgeTarget(LastStage, router(st))
  /\ UNCHANGED <<inputs, batchv, st, stages, outcome, fs, ret, dl, rwb, log,
                 calls, sleeping>>

\* the graph reached END: invoke returns the state
GraphEnd ==
  /\ pc = "END"
  /\ outcome' = "state"
  /\ pc' = "returned"
  /\ UNCHANGED <<inputs, batchv, st, stages, routed, fs, ret, dl, rwb, log,
                 calls, sleeping>>

----------------------------------------------------------------------------
(* batch_transcriber.py: process_youtube_urls *)

WaitMin == 3
WaitMax == 10

BatchMaxRetries == 3
BatchInitialDelay == 5
BatchMaxDelay == 60

\* str(i) for the loop index
IndexText(i) == <<"0", "1", "2", "3", "4", "5">>[i + 1]

\* lines 96-105: the mock result of URL number i (0-based)
MockResult(url, prompt, i) ==
  [youtube_url |-> url, prompt_instruction |-> prompt,
   audio_file_path |-> <<"mock_audio_", IndexText(i), ".mp3">>,
   transcript_text |-> <<"This is a mock transcript for video ", IndexText(i)>>,
   transcript_file |-> <<"mock_transcript_", IndexText(i), ".txt">>,
   summary |-> <<"Mock summary for video ", IndexText(i), " based on prompt: ">>
                 \o prompt \o <<"...">>,
   current_step |-> "end", error |-> <<>>]

\* an except clause that logs the error and does not record it in the result
BatchExcept_drops_error(result, r) == [result EXCEPT !.current_step = "end"]

\* lines 151-155: the except clause around the three steps
BatchExcept(result, r) ==
  [result EXCEPT
     !.error = <<"Processing failed at step ", result.current_step, ": ">>
                 \o (IF r.kind = "raise" THEN r.msg
                     ELSE <<"cannot unpack non-iterable NoneType object">>),
     !.current_step = "end"]

\* save_results_to_csv, lines 193-200: the row of a result (the file names and
\* the summary length left out)
ReportRow(result) ==
  [URL     |-> result.youtube_url,
   Success |-> Len(result.error) = 0,
   Error   |-> result.error]

\* lines 124-125
BatchDownloaded(result, r) ==
  [result EXCEPT !.audio_file_path = r.path, !.current_step = "transcription"]

\* lines 140-142
BatchTranscribed(result, r) ==
  [result EXCEPT !.transcript_file = r.path, !.transcript_text = r.text,
                 !.current_step = "summarization"]

\* lines 148-149
\* a last step that leaves current_step at "summarization"
BatchSummarized_keeps_step(result, r) == [result EXCEPT !.summary = r.text]

BatchSummarized(result, r) ==
  [result EXCEPT !.summary = r.text, !.current_step = "end"]

\* the loop head with the wait before every URL, the first included
BatchLoop_waits_before_first ==
  /\ pc = "b_loop"
  /\ IF idx < Len(urls)
     THEN /\ idx' = idx + 1
          /\ IF idx >= 0
             THEN /\ pc' = "b_wait"
                  /\ \E wait_time \in WaitMin..WaitMax : sleeping' = 10 * wait_time
             ELSE /\ pc' = "b_body"
                  /\ sleeping' = 0
          /\ outcome' = outcome
     ELSE /\ idx' = idx
          /\ pc' = "returned"
          /\ sleeping' = 0
          /\ outcome' = "results"
  /\ UNCHANGED <<inputs, results, waits, st, stages, routed, fs, ret, dl, rwb,
                 log, calls>>

\* line 85: the head of the for loop, and line 161 when the URLs are exhausted;
\* lines 89-92: the wait before every URL but the first begins
BatchLoop ==
  /\ pc = "b_loop"
  /\ IF idx < Len(urls)
     THEN /\ idx' = idx + 1
          /\ IF idx > 0
             THEN /\ pc' = "b_wait"
                  /\ \E wait_time \in WaitMin..WaitMax : sleeping' = 10 * wait_time
             ELSE /\ pc' = "b_body"
                  /\ sleeping' = 0
          /\ outcome' = outcome
     ELSE /\ idx' = idx
          /\ pc' = "returned"
          /\ sleeping' = 0
          /\ outcome' = "results"
  /\ UNCHANGED <<inputs, results, waits, st, stages, routed, fs, ret, dl, rwb,
                 log, calls>>

\* line 92: time.sleep(wait_time) returns
BatchWait ==
  /\ pc = "b_wait"
  /\ sleeping' = 0
  /\ waits' = waits + 1
  /\ pc' = "b_body"
  /\ UNCHANGED <<inputs, idx, results, pipev, fs, ret, dl, rwb, log, calls>>

\* a loop body that runs the pipeline whatever use_mock says
BatchBody_ignores_mock ==
  /\ pc = "b_body"
  /\ st' = InitialState(urls[idx], Prompt)
  /\ stages' = <<StageStart("download")>>
  /\ pc' = "dl_enter"
  /\ UNCHANGED <<inputs, batchv, routed, outcome, fs, ret, dl, rwb, log, calls,
                 sleeping>>

\* lines 94-122: the mock result, or the initial result and the download call
BatchBody ==
  /\ pc = "b_body"
  /\ IF use_mock
     THEN /\ st' = MockResult(urls[idx], Prompt, idx - 1)
          /\ stages' = <<>>
          /\ pc' = "b_append"
     ELSE /\ st' = InitialState(urls[idx], Prompt)
          /\ stages' = <<StageStart("download")>>
          /\ pc' = "dl_enter"
  /\ UNCHANGED <<inputs, batchv, routed, outcome, fs, ret, dl, rwb, log, calls,
                 sleeping>>

\* lines 122-137: download_youtube_audio returned or raised
BatchAfterDownload ==
  /\ mode = "batch"
  /\ pc = "dl_done"
  /\ IF ret.kind = "return"
     THEN /\ st' = BatchDownloaded(st, ret)
          /\ stages' = stages \o <<StageEnd("download", ret),
                                    StageStart("transcription")>>
          /\ rwb' = RwbStart(BatchMaxRetries, BatchInitialDelay, BatchMaxDelay)
          /\ pc' = "rwb_loop"
     ELSE /\ st' = BatchExcept(st, ret)
          /\ stages' = Append(stages, StageEnd("download", ret))
          /\ rwb' = rwb
          /\ pc' = "b_append"
  /\ ret' = NoRet
  /\ log' = <<>>
  /\ UNCHANGED <<inputs, batchv, routed, outcome, fs, dl, calls, sleeping>>

\* lines 132-146: retry_with_backoff returned or raised
BatchAfterTranscription ==
  /\ mode = "batch"
  /\ pc = "rwb_done"
  /\ IF ret.kind = "return"
     THEN /\ st' = BatchTranscribed(st, ret)
          /\ stages' = stages \o <<StageEnd("transcription", ret),
                                    StageStart("summarization")>>
          /\ pc' = "sum_enter"
     ELSE /\ st' = BatchExcept(st, ret)
          /\ stages' = Append(stages, StageEnd("transcription", ret))
          /\ pc' = "b_append"
  /\ ret' = NoRet
  /\ log' = <<>>
  /\ rwb' = NoRwb
  /\ UNCHANGED <<inputs, batchv, routed, outcome, fs, dl, calls, sleeping>>

\* lines 146-155: summarize_text returned or raised
BatchAfterSummarization ==
  /\ mode = "batch"
  /\ pc = "sum_done"
  /\ IF ret.kind = "return"
     THEN /\ st' = BatchSummarized(st, ret)
     ELSE /\ st' = BatchExcept(st, ret)
  /\ stages' = Append(stages, StageEnd("summarization", ret))
  /\ pc' = "b_append"
  /\ ret' = NoRet
  /\ log' = <<>>
  /\ UNCHANGED <<inputs, batchv, routed, outcome, fs, dl, rwb, calls, sleeping>>

\* lines 157-159; the iteration's result, now in results, is rebuilt by the
\* next iteration before it is read
BatchAppend ==
  /\ pc = "b_append"
  /\ results' = Append(results, st)
  /\ st' = NoState
  /\ stages' = <<>>
  /\ calls' = NoCalls
  /\ pc' = "b_loop"
  /\ UNCHANGED <<inputs, idx, waits, routed, outcome, fs, ret, dl, rwb, log,
                 sleeping>>

\* retry_with_backoff called by itself: the caller gets the value or the exception
RetryEnd ==
  /\ mode = "retry"
  /\ pc = "rwb_done"
  /\ outcome' = IF ret.kind = "raise" THEN "raised" ELSE "value"
  /\ pc' = "returned"
  /\ UNCHANGED <<inputs, batchv, st, stages, routed, fs, ret, dl, rwb, log, calls,
                 sleeping>>

----------------------------------------------------------------------------
(* app/main.py: process_youtube_video *)

CrewTasks == <<"download", "transcription", "summarization">>

\* lines 31-78: one crew.kickoff(); ok tells whether it returned. An exception
\* is logged and raised again (lines 76-78)
CrewKickoff ==
  /\ pc = "crew"
  /\ \E ok \in BOOLEAN :
       LET task == st.current_step
       IN
       IF ~ok
       THEN /\ outcome' = "raised"
            /\ pc' = "returned"
            /\ st' = st
            /\ stages' = stages \o <<StageStart(task), <<task, "raise", <<>>>>>>
       ELSE /\ stages' = stages \o <<StageStart(task), <<task, "return", <<>>>>>>
            /\ IF task = "download"
               THEN /\ st' = [st EXCEPT !.audio_file_path = <<"crew audio">>,
                                        !.current_step = "transcription"]
                    /\ outcome' = outcome
                    /\ pc' = "crew"
               ELSE IF task = "transcription"
               THEN /\ st' = [st EXCEPT !.transcript_file = <<"crew transcript">>,
                                        !.transcript_text = <<"crew text">>,
                                        !.current_step = "summarization"]
                    /\ outcome' = outcome
                    /\ pc' = "crew"
               ELSE /\ st' = [st EXCEPT !.summary = <<"crew summary">>,
                                        !.current_step = "end"]
                    /\ outcome' = "summary"
                    /\ pc' = "returned"
  /\ UNCHANGED <<inputs, batchv, routed, fs, ret, dl, rwb, log, calls, sleeping>>

----------------------------------------------------------------------------
(* KeyboardInterrupt *)

\* the positions at which the program is inside time.sleep
WaitPcs == {"dl_sleep", "rwb_sleep", "b_wait"}

\* a KeyboardInterrupt arrives during time.sleep. It is not an Exception: no
\* except clause of download_youtube_audio, retry_with_backoff, the graph
\* nodes, transcribe_video or process_youtube_urls catches it, and it leaves
\* the entry point (run_transcriber catches it around main() and prints)
Interrupt ==
  /\ pc \in WaitPcs
  /\ sleeping' = 0
  /\ outcome' = "interrupted"
  /\ pc' = "returned"
  /\ UNCHANGED <<inputs, batchv, st, stages, routed, fs, ret, dl, rwb, log, calls>>

----------------------------------------------------------------------------
(* The initial states and the next-state relation *)

MaxRetriesArg == 3

Modes == {"graph", "notebook", "batch", "crew", "retry", "router"}

Steps == {"download", "transcription", "summarization", "end"}

EmptyFs == <<>>

\* files earlier runs may have left: a transcript, a mock transcript, an audio file
LeftoverFs ==
  { EmptyFs,
    PathJoin("transcripts", <<"a", ".txt">>) :> <<"earlier transcript">>,
    PathJoin("transcripts", <<"a", ".txt">>)
       :> MockTranscript(FallbackPath(<<"a">>), <<>>),
    TitleAudioPath(UrlA) :> AudioContent }

\* the URL lists given to process_youtube_urls: one URL, the same URL twice, two
\* videos, two URLs that carry no "v="
BatchInputs == {<<UrlA>>, <<UrlA, UrlA>>, <<UrlA, UrlB>>, <<UrlC, UrlD>>}

\* the URL given to the single-video entry points
SingleInputs == {<<UrlA>>, <<UrlB>>, <<UrlC>>}

Init ==
  /\ mode \in Modes
  /\ urls \in IF mode = "batch" THEN BatchInputs
              ELSE IF mode \in {"retry", "router"} THEN {<<>>}
              ELSE SingleInputs
  /\ use_mock \in IF mode = "batch" THEN BOOLEAN ELSE {FALSE}
  /\ fs \in IF mode \in {"graph", "notebook"} THEN LeftoverFs ELSE {EmptyFs}
  /\ st \in IF mode = "router"
            THEN {[InitialState(UrlA, Prompt) EXCEPT !.error = e, !.current_step = c] :
                     e \in {<<>>, <<"Error transcribing audio: ", "boom">>}, c \in Steps}
            ELSE IF mode = "crew" THEN {InitialState(urls[1], Prompt)}
            ELSE {NoState}
  /\ rwb \in IF mode = "retry"
             THEN {RwbStart(m, i, d) : m \in (-1)..MaxRetriesArg, i \in {1, 5},
                                       d \in {3, 60}}
             ELSE {NoRwb}
  /\ pc = CASE mode = "batch" -> "b_loop"
            [] mode = "crew" -> "crew"
            [] mode = "retry" -> "rwb_loop"
            [] mode = "router" -> "route"
            [] OTHER -> "invoke"
  /\ idx = 0
  /\ results = <<>>
  /\ waits = 0
  /\ ret = NoRet
  /\ dl = NoDl
  /\ log = <<>>
  /\ stages = <<>>
  /\ calls = NoCalls
  /\ routed = ""
  /\ outcome = "none"
  /\ sleeping = 0

Next ==
  \/ DlEnter \/ DlYtDlp \/ DlAttempt \/ DlSleep \/ DlFallback
  \/ TrEnter \/ TrApi
  \/ SumEnter \/ SumLlm
  \/ RwbLoop \/ Func \/ RwbAfterCall \/ RwbSleep \/ RetryEnd
  \/ Invoke \/ NodeDownloadStart \/ NodeDownloadEnd
  \/ NodeTranscriptionStart \/ NodeTranscriptionEnd
  \/ NodeSummarizationStart \/ NodeSummarizationEnd
  \/ Route \/ GraphEnd
  \/ BatchLoop \/ BatchWait \/ BatchBody \/ BatchAfterDownload
  \/ BatchAfterTranscription \/ BatchAfterSummarization \/ BatchAppend
  \/ CrewKickoff
  \/ Interrupt

Spec == Init /\ [][Next]_vars

\* the program is one sequential thread: the interpreter takes the next step
\* whenever there is one, every capability call returns or raises and every
\* time.sleep ends (or is interrupted)
FairSpec == Spec /\ WF_vars(Next)

----------------------------------------------------------------------------
(* Properties *)

PipelineModes == {"graph", "notebook", "batch"}

GraphModes == {"graph", "notebook"}

DlPcs == {"dl_enter", "dl_ytdlp", "dl_attempt", "dl_sleep", "dl_fallback", "dl_done"}
TrPcs == {"tr_enter", "tr_api", "tr_done", "rwb_loop", "rwb_sleep", "rwb_done"}
SumPcs == {"sum_enter", "sum_llm", "sum_done"}

\* the state has every field of an AgentState
FullState == DOMAIN st = DOMAIN NoState

\* a pipeline invocation has ended, and st is the state it yields
InvocationEnded ==
  \/ mode \in GraphModes /\ pc = "returned" /\ outcome = "state"
  \/ mode = "batch" /\ pc = "b_append" /\ ~use_mock

StageOrder == <<"download", "transcription", "summarization">>

StageStarts == SelectSeq(stages, LAMBDA e : e[2] = "start")

StageOf(p) ==
  IF p \in DlPcs THEN "download"
  ELSE IF p \in TrPcs THEN "transcription"
  ELSE "summarization"

\* C1: in every invocation of the graph and of process_youtube_urls the stages
\* that start form a prefix of download, transcription, summarization; a stage
\* other than download starts only right after its predecessor has returned;
\* and a utility function runs only while its stage is the one that started last.
C1_Sequencing ==
  mode \in PipelineModes =>
    /\ Len(StageStarts) <= Len(StageOrder)
    /\ \A i \in 1..Len(StageStarts) : StageStarts[i][1] = StageOrder[i]
    /\ \A i \in 1..Len(stages) :
         stages[i][2] = "start" /\ stages[i][1] # "download" =>
           /\ i > 1
           /\ stages[i-1][2] = "return"
           /\ \E k \in 1..2 : /\ StageOrder[k] = stages[i-1][1]
                              /\ StageOrder[k+1] = stages[i][1]
    /\ pc \in DlPcs \cup TrPcs \cup SumPcs =>
         /\ stages # <<>>
         /\ stages[Len(stages)][1] = StageOf(pc)
         /\ stages[Len(stages)][2] = "start"

\* the graph has started its summarization node
C1_Witness == mode = "graph" /\ pc = "sum_enter"

\* C2: (a) a call of router on a state whose error is non-empty returns "end",
\* whatever current_step holds; (b) while the invocation whose state has a
\* non-empty error lasts, no step changes the state or adds a stage event.
C2_FailFast ==
  [][/\ pc = "route" /\ Truthy(st.error) => routed' = "end"
     /\ Truthy(st.error) /\ pc # "b_append" => st' = st /\ stages' = stages]_vars

\* router was given a state with an error and a current_step other than "end"
C2_Witness ==
  /\ mode = "router" /\ pc = "returned"
  /\ Truthy(st.error) /\ st.current_step = "transcription" /\ routed = "end"

\* some stage's utility function has raised
SomeStageRaised == \E i \in 1..Len(stages) : stages[i][2] = "raise"

AllSucceededFirstAttempt ==
  /\ ~calls.failed
  /\ calls.api = 1
  /\ FullState
  /\ ~IsMockTranscript(st.transcript_text)

\* C4: an invocation in which download, transcription and summarization all
\* succeed on their first attempt ends with current_step "end", error empty and
\* summary equal to the text the summarizer produced, in the graph as well as
\* in process_youtube_urls.
C4_HappyPath ==
  InvocationEnded /\ AllSucceededFirstAttempt =>
    /\ st.current_step = "end"
    /\ st.error = <<>>
    /\ st.summary = LlmSummary(st.transcript_text)

\* the message names the stage: the node's own prefix in the graph, the step
\* name in process_youtube_urls
GraphErrorPrefix ==
  [download      |-> "Error downloading YouTube video: ",
   transcription |-> "Error transcribing audio: ",
   summarization |-> "Error summarizing transcript: "]

NamesStage(err, stage) ==
  /\ Len(err) >= 2
  /\ \/ err[1] = GraphErrorPrefix[stage]
     \/ err[1] = "Processing failed at step " /\ err[2] = stage

\* the download stage returned and the transcription stage then raised
DownloadThenTranscriptionFailed ==
  /\ Len(stages) = 4
  /\ stages[2][1] = "download" /\ stages[2][2] = "return"
  /\ stages[4] = <<"transcription", "raise", <<>>>>

\* C5: when the download stage succeeds and the transcription stage then
\* fails, the invocation yields a state whose audio_file_path is the path the
\* download returned, whose error is non-empty and names the transcription
\* stage, and whose transcript and summary fields are still empty.
C5_PartialState ==
  InvocationEnded /\ DownloadThenTranscriptionFailed =>
    /\ st.audio_file_path = stages[2][3]
    /\ Truthy(st.audio_file_path)
    /\ Truthy(st.error)
    /\ NamesStage(st.error, "transcription")
    /\ st.transcript_file = <<>>
    /\ st.transcript_text = <<>>
    /\ st.summary = <<>>

\* the graph has returned after a download that returned and a transcription
\* that raised
C5_Witness ==
  mode = "graph" /\ pc = "returned" /\ DownloadThenTranscriptionFailed

\* C6: an invocation that ends with current_step "end" and error empty has
\* all its artifacts: audio_file_path, transcript_file, transcript_text and
\* summary are each neither empty nor None.
C6_ArtifactsPopulated ==
  InvocationEnded /\ FullState /\ st.current_step = "end" /\ st.error = <<>> =>
    /\ Truthy(st.audio_file_path)
    /\ Truthy(st.transcript_file)
    /\ Truthy(st.transcript_text)
    /\ Truthy(st.summary)

\* the output text of a stage
StageOutput(state, stage) ==
  IF stage = "download" THEN state.audio_file_path
  ELSE IF stage = "transcription" THEN state.transcript_text
  ELSE state.summary

\* C9: when the fallback action of a stage could not produce its placeholder,
\* the invocation ends with an error that is non-empty and names that stage,
\* the output of the stage is empty, and the stage is the last one that ran.
C9_FallbackFailureIsStageFailure ==
  InvocationEnded /\ FullState =>
    \A stage \in calls.fbfail :
      /\ Truthy(st.error)
      /\ NamesStage(st.error, stage)
      /\ StageOutput(st, stage) = <<>>
      /\ stages[Len(stages)][1] = stage

\* the number of times the token is in the log
Count(l, tok) == Cardinality({i \in DOMAIN l : l[i] = tok})

\* download_youtube_audio is about to return after every attempt of every
\* pytube method failed with a transient error, up to the retry bound
DlRetriesExhausted ==
  /\ pc = "dl_done"
  /\ Count(log, "transient") = DownloadMaxRetries * Len(Methods)

\* transcribe_audio, called by retry_with_backoff in process_youtube_urls, has
\* met an OpenAI error in its API call, and retry_with_backoff is about to end
TrApiFailedTransiently ==
  /\ mode = "batch" /\ pc = "rwb_done"
  /\ Len(log) >= 2 /\ log[1] = "api" /\ log[2] = "openai_error"

Lookups == {"lookup:direct", "lookup:alternative"}

FallbackWrites == {"fallback_write", "fallback_write_failed"}

\* transcribe_audio, called by retry_with_backoff in process_youtube_urls, has
\* met a missing audio file or an exception that is not an OpenAI error, and
\* retry_with_backoff is about to end
TrFailedNonRetryable ==
  /\ mode = "batch" /\ pc = "rwb_done" /\ log # <<>>
  /\ \/ log[1] = "audio_missing"
     \/ Len(log) >= 2 /\ log[1] = "api" /\ log[2] \in {"other_error", "save_failed"}

\* what C8 says of the transcription: one call of transcribe_audio, at most
\* one API call (none when the audio file is missing), no wait, and the value
\* of create_mock_transcript is returned
TrNonRetryableOnce ==
  TrFailedNonRetryable =>
    /\ rwb.log = <<"call">>
    /\ rwb.slept = <<>>
    /\ calls.api = (IF log[1] = "audio_missing" THEN 0 ELSE 1)
    /\ ret.kind = "return"
    /\ ret.text = IF "mock_transcript" \in Range(log)
                  THEN MockTranscript(st.audio_file_path,
                         <<IF log[1] = "audio_missing" THEN "FileNotFoundError"
                           ELSE log[2]>>)
                  ELSE <<"Error creating transcript.">>

CurrentTranscriptFile == TranscriptFile(st.audio_file_path, TrUrlArg)

\* C10: a call of transcribe_audio that finds its transcript file (named after
\* the video id when it is given the URL, after the audio file otherwise) ends
\* in one step without an API call and without a write to any file, and the
\* pair it returns is the path of that file and the content the file has; the
\* only other way out is the OSError of the directory or of the read.
C10_ExistingTranscriptReused ==
  [][pc = "tr_enter" /\ Exists(fs, CurrentTranscriptFile) =>
       /\ pc' = "tr_done"
       /\ fs' = fs
       /\ calls'.api = calls.api
       /\ ret'.kind \in {"return", "raise"}
       /\ ret'.kind = "return" =>
            /\ ret'.path = CurrentTranscriptFile
            /\ ret'.text = fs[CurrentTranscriptFile]
       /\ ret'.kind = "raise" => ret'.etype = "OSError"]_vars

\* transcribe_audio has returned the transcript the first of two iterations
\* over the same URL had written
C10_Witness ==
  /\ mode = "batch" /\ idx = 2
  /\ pc = "tr_done" /\ log = <<"transcript_exists">>
  /\ ret.kind = "return" /\ ret.text = fs[ret.path]
  /\ calls.api = 0

\* the audio files download_youtube_audio may produce for the URL
AudioPaths(url) == {IdAudioPath(url), TitleAudioPath(url)}

\* the external fetch calls in the log of download_youtube_audio
FetchCalls == {"yt-dlp", "lookup:direct", "lookup:alternative", "stream_download"}

\* C11: a call of download_youtube_audio that finds an audio file of its URL
\* in the download directory makes no external fetch call at all (no yt-dlp
\* run, no YouTube lookup, no stream download): it returns at once, the path it
\* returns is that of a file that was there, and no file is written.
C11_ExistingAudioNoFetch ==
  /\ [][pc = "dl_enter" /\ AudioPaths(st.youtube_url) \cap DOMAIN fs # {} =>
          /\ pc' = "dl_done"
          /\ ret'.kind = "return"
          /\ ret'.path \in AudioPaths(st.youtube_url) \cap DOMAIN fs
          /\ fs' = fs]_vars
  /\ [][AudioPaths(st.youtube_url) \cap DOMAIN fs # {} /\ pc \in DlPcs =>
          \A c \in FetchCalls : c \notin Range(log')]_vars

\* the marker transcribe_audio looks for in the name of the audio file
HasAudioMarker(path) == Contains(SplitextStem(Basename(path)), "fallback_")

\* what create_fallback_audio_file writes
FallbackAudioContents == {FallbackAudioContent, EmergencyAudioContent}

\* the fallback of download_youtube_audio has produced the value it returns
DlFallbackProduced ==
  /\ pc = "dl_done" /\ ret.kind = "return"
  /\ \E t \in {"fallback_write", "emergency_write"} : t \in Range(log)

\* create_mock_transcript has produced the value transcribe_audio returns
TrFallbackProduced ==
  /\ pc = "tr_done" /\ ret.kind = "return"
  /\ \E t \in {"mock_transcript", "mock_transcript_failed"} : t \in Range(log)

\* C12: the path the download fallback returns has "fallback_" in its file
\* name and the text the transcription fallback returns holds the mock phrase;
\* the transcription API is never about to be called on a file the download
\* fallback wrote, nor the summarization model on a text the transcription
\* fallback returned.
C12_FallbackValuesMarked ==
  /\ DlFallbackProduced => HasAudioMarker(ret.path)
  /\ TrFallbackProduced => IsMockTranscript(ret.text)
  /\ pc = "tr_api" /\ Exists(fs, st.audio_file_path) =>
       fs[st.audio_file_path] \notin FallbackAudioContents
  /\ pc = "sum_llm" => st.transcript_text # <<"Error creating transcript.">>

\* C13: process_youtube_urls keeps one result per URL, in input order: the
\* results so far are those of the first URLs, a result once appended never
\* changes, the result about to be appended has a non-empty error (and Success
\* false in the report) exactly when a stage of that URL raised, appending it
\* is followed by the next turn of the loop, and the list returned has one
\* result for each URL.
C13_OneResultPerUrl ==
  /\ [](mode = "batch" =>
          /\ Len(results) <= Len(urls)
          /\ \A i \in 1..Len(results) :
               /\ results[i].youtube_url = urls[i]
               /\ ReportRow(results[i]).URL = urls[i]
               /\ ReportRow(results[i]).Success = (results[i].error = <<>>)
          /\ pc = "b_append" =>
               /\ Len(results) = idx - 1
               /\ st.youtube_url = urls[idx]
               /\ SomeStageRaised <=> Truthy(st.error)
               /\ SomeStageRaised <=> ~ReportRow(st).Success
          /\ pc = "returned" /\ outcome = "results" => Len(results) = Len(urls))
  /\ [][mode = "batch" =>
          /\ Len(results') >= Len(results)
          /\ \A i \in 1..Len(results) : results'[i] = results[i]
          /\ pc = "b_append" => results' = Append(results, st) /\ pc' = "b_loop"]_vars

\* process_youtube_urls has returned two results, the first failed, the
\* second not
C13_Witness ==
  /\ mode = "batch" /\ ~use_mock /\ pc = "returned" /\ outcome = "results"
  /\ Len(results) = 2
  /\ Truthy(results[1].error) /\ ~ReportRow(results[1]).Success
  /\ results[2].error = <<>> /\ ReportRow(results[2]).Success
  /\ Truthy(results[2].summary)

\* process_youtube_urls, started with no file present, is at its second URL,
\* which differs from the first
SecondDistinctUrl ==
  /\ mode = "batch" /\ ~use_mock
  /\ idx = 2 /\ urls[1] # urls[2]

\* C14: the invocation of a reference does not depend on what the invocation
\* of another reference left behind: for the second of two distinct URLs,
\* whatever happened to the first, download_youtube_audio finds no audio file
\* of its own already there and transcribe_audio does not return the content
\* of a transcript file that was there before the call (either would be the
\* artifact of the first URL), so that transcript_text and summary come from
\* this URL's own calls.
C14_InvocationsIndependent ==
  SecondDistinctUrl =>
    /\ pc = "dl_enter" => AudioPaths(st.youtube_url) \cap DOMAIN fs = {}
    /\ pc = "tr_done" => log # <<"transcript_exists">>

\* C15: in process_youtube_urls the number of waits completed is the number
\* of URLs begun less one (less two during a wait, none before the first URL):
\* one wait lies between the end of a URL and the first stage call of the next,
\* none precedes the first URL or follows the last, and each wait is a whole
\* number of seconds from wait_min to wait_max.
C15_OneWaitBetweenUrls ==
  mode = "batch" /\ outcome # "interrupted" =>
    /\ waits = IF idx = 0 THEN 0
               ELSE IF pc = "b_wait" THEN idx - 2 ELSE idx - 1
    /\ pc = "b_wait" =>
         /\ idx > 1
         /\ Len(results) = idx - 1
         /\ \E w \in WaitMin..WaitMax : sleeping = 10 * w
    /\ pc \in {"b_loop", "b_body", "b_append", "returned"} => sleeping = 0
    /\ pc = "returned" => waits = IF urls = <<>> THEN 0 ELSE Len(urls) - 1

\* the download of the second URL starts after the one wait
C15_Witness ==
  /\ mode = "batch" /\ ~use_mock /\ idx = 2 /\ pc = "dl_enter"
  /\ waits = 1 /\ Len(results) = 1

\* C16: a KeyboardInterrupt that arrives during a backoff wait or the wait
\* between two URLs ends the wait without a further capability call, and what
\* the caller gets is a state (or the list of results) whose error is not
\* empty, never the interrupt itself.
C16_InterruptYieldsState ==
  [][pc' = "returned" /\ pc \in WaitPcs =>
       /\ calls' = calls
       /\ outcome' \in {"state", "results"}
       /\ "error" \in DOMAIN st' /\ Truthy(st'.error)]_vars

\* C17: in retry_with_backoff the delay before jitter of the k-th wait is
\* min(initial_delay * 2^(k-1), max_delay), for every k and every
\* configuration; the delays never decrease and never exceed max_delay.
C17_BackoffFormula ==
  \A k \in 1..Len(rwb.delays) :
    /\ rwb.delays[k] = Min(rwb.initial_delay * 2^(k-1), rwb.max_delay)
    /\ rwb.delays[k] <= rwb.max_delay
    /\ k > 1 => rwb.delays[k] >= rwb.delays[k-1]

\* the waits retry_with_backoff has slept lie between the delay before jitter
\* and 1.1 times that delay (in tenths of a second)
RwbWaitsWithinJitter ==
  /\ Len(rwb.slept) = Len(rwb.delays)
  /\ \A k \in 1..Len(rwb.slept) :
       /\ rwb.slept[k] >= 10 * rwb.delays[k]
       /\ rwb.slept[k] <= 11 * rwb.delays[k]
  /\ pc = "rwb_sleep" =>
       sleeping >= 10 * rwb.delay /\ sleeping <= 11 * rwb.delay

\* C18 as stated: every backoff wait, of retry_with_backoff and of the retry
\* loop of download_youtube_audio alike, is at least the delay before jitter
\* and at most 1.1 times that delay.
C18_JitterTenPercent ==
  /\ RwbWaitsWithinJitter
  /\ pc = "dl_sleep" =>
       /\ sleeping >= 10 * 2^dl.retry_count
       /\ sleeping <= 11 * 2^dl.retry_count

\* C18, amended: the waits of retry_with_backoff are at least the delay before
\* jitter and at most 1.1 times that delay; the wait of download_youtube_audio
\* after failed attempt number retry_count + 1 is at least 2^retry_count
\* seconds and less than half a second more.
C18_JitterBounds ==
  /\ RwbWaitsWithinJitter
  /\ pc = "dl_sleep" =>
       /\ sleeping >= 10 * 2^dl.retry_count
       /\ sleeping < 10 * 2^dl.retry_count + 5

\* download_youtube_audio waits 1.4 seconds after its first failed attempt
C18_Witness ==
  pc = "dl_sleep" /\ dl.retry_count = 0 /\ sleeping = 14

\* retry_with_backoff calls func at most max_retries times (never for
\* max_retries <= 0), and exactly max_retries times when it ends by re-raising
\* an OpenAI error, which is when every call raised one
RwbCallsBounded ==
  /\ Count(rwb.log, "call") <= (IF rwb.max_retries > 0 THEN rwb.max_retries ELSE 0)
  /\ pc = "rwb_done" /\ ret.kind = "raise" /\ ret.etype \in OpenAIErrors
       => Count(rwb.log, "call") = rwb.max_retries

\* the fetch attempts download_youtube_audio has made so far
FetchAttempts == Cardinality({i \in DOMAIN log : log[i] \in Lookups \cup {"yt-dlp"}})

ErrorMessage(m, stage, msg) ==
  IF m = "batch" THEN <<"Processing failed at step ", stage, ": ">> \o msg
  ELSE <<GraphErrorPrefix[stage]>> \o msg

IsPrefix(p, s) == Len(p) <= Len(s) /\ SubSeq(s, 1, Len(p)) = p

\* the outputs of the stages that returned before the last event of the
\* invocation are the values the state holds
EarlierOutputsKept ==
  \A j \in 1..(Len(stages) - 1) :
    stages[j][2] = "return" =>
      /\ stages[j][1] = "download" =>
           st.audio_file_path = stages[j][3] /\ Truthy(st.audio_file_path)
      /\ stages[j][1] = "transcription" => st.transcript_file = stages[j][3]

C21_StageInputsNonEmpty ==
  mode \in PipelineModes =>
    /\ pc \in TrPcs => Truthy(st.audio_file_path)
    /\ pc \in SumPcs => Truthy(st.transcript_text)

\* the URL the running invocation was given
CurrentUrl == IF mode = "batch" THEN urls[idx] ELSE urls[1]

\* the positions at which a stage has returned or raised and its node (or the
\* body of process_youtube_urls) is about to build the next state
StageDonePcs == {"dl_done", "tr_done", "rwb_done", "sum_done"}

\* C22: youtube_url and prompt_instruction are never changed after the initial
\* state is built: every state a stage node returns, on success or on failure,
\* and every batch result carries the two values the caller supplied.
C22_InputsImmutable ==
  /\ [](mode \in PipelineModes =>
          /\ \A i \in 1..Len(results) :
               /\ results[i].youtube_url = urls[i]
               /\ results[i].prompt_instruction = Prompt
          /\ st # NoState /\ "youtube_url" \in DOMAIN st =>
               st.youtube_url = CurrentUrl /\ st.prompt_instruction = Prompt)
  /\ [][outcome' = outcome /\ mode \in PipelineModes
          /\ pc \in StageDonePcs /\ pc' \notin StageDonePcs
        => /\ {"youtube_url", "prompt_instruction"} \subseteq DOMAIN st'
           /\ st'.youtube_url = st.youtube_url
           /\ st'.prompt_instruction = st.prompt_instruction
           /\ st'.youtube_url = CurrentUrl]_vars

\* the graph has returned the state of an invocation for the second video
\* whose last stage failed after the first two succeeded
C22_Witness ==
  /\ mode = "graph" /\ InvocationEnded
  /\ Truthy(st.error) /\ Truthy(st.audio_file_path) /\ Truthy(st.transcript_text)
  /\ st.youtube_url = UrlB /\ st.prompt_instruction = Prompt

\* the text is one create_mock_transcript writes: it begins with the note on
\* the failure or with the mock phrase (lines 109-125)
WrittenByMockTranscript(text) ==
  /\ text # <<>>
  /\ text[1] \in {MockPhrase, "Note: Transcription failed with error: "}

\* transcribe_audio has returned through its transcript-already-exists shortcut
ReturnedExistingTranscript ==
  pc = "tr_done" /\ ret.kind = "return" /\ log = <<"transcript_exists">>

\* C23: a transcript returned through the transcript-already-exists shortcut
\* of transcribe_audio was produced by a successful API call: a mock transcript
\* written by an earlier failed invocation is never returned by a later
\* invocation as the existing transcript.
C23_ShortcutNeverReturnsMock ==
  ReturnedExistingTranscript => ~WrittenByMockTranscript(ret.text)

\* the calls and sleeps of retry_with_backoff alternate, beginning with a
\* call; it sleeps only when another call is allowed, and it ends on a call
RwbSleepsBetweenCalls ==
  /\ \A i \in 1..Len(rwb.log) :
       rwb.log[i] = (IF i % 2 = 1 THEN "call" ELSE "sleep")
  /\ pc = "rwb_sleep" =>
       /\ rwb.log # <<>> /\ rwb.log[Len(rwb.log)] = "call"
       /\ rwb.attempt + 1 < rwb.max_retries
  /\ rwb.log # <<>> /\ rwb.log[Len(rwb.log)] = "sleep" =>
       pc = "rwb_loop" /\ rwb.attempt < rwb.max_retries
  /\ pc = "rwb_done" /\ rwb.log # <<>> => rwb.log[Len(rwb.log)] = "call"

\* the position in log of the pytube attempt that follows the one at i (0 if
\* none does)
NextLookup(i) ==
  IF \E j \in (i+1)..Len(log) : log[j] \in Lookups
  THEN CHOOSE j \in (i+1)..Len(log) :
         log[j] \in Lookups /\ \A k \in (i+1)..(j-1) : log[k] \notin Lookups
  ELSE 0

\* in each method loop of download_youtube_audio a sleep follows a failed
\* attempt exactly when another attempt of that method follows
DlSleepsBetweenAttempts ==
  /\ \A i \in 1..Len(log) :
       log[i] = "sleep" =>
         /\ i > 2 /\ log[i-1] = "transient" /\ log[i-2] \in Lookups
         /\ IF i < Len(log) THEN log[i+1] = log[i-2]
            ELSE /\ pc = "dl_attempt"
                 /\ log[i-2] = (IF Methods[dl.method] = "direct"
                                THEN "lookup:direct" ELSE "lookup:alternative")
  /\ \A i \in 1..Len(log) :
       log[i] \in Lookups /\ NextLookup(i) # 0 /\ log[NextLookup(i)] = log[i] =>
         /\ NextLookup(i) = i + 3
         /\ log[i+2] = "sleep"
  /\ pc = "dl_sleep" =>
       /\ log[Len(log)] = "transient"
       /\ dl.retry_count + 1 < DownloadMaxRetries

\* C24: in retry_with_backoff and in each method loop of
\* download_youtube_audio a backoff sleep follows a failed attempt if and only
\* if another attempt of the same loop follows it: consecutive attempts are
\* separated by exactly one sleep, and after the last allowed attempt fails
\* the loop gives up without sleeping.
C24_SleepIffAnotherAttempt ==
  /\ RwbSleepsBetweenCalls
  /\ pc \in DlPcs => DlSleepsBetweenAttempts

\* the download has given up after three attempts and two sleeps with each
\* pytube method
C24_Witness ==
  /\ pc = "dl_done"
  /\ Count(log, "lookup:direct") = DownloadMaxRetries
  /\ Count(log, "lookup:alternative") = DownloadMaxRetries
  /\ Count(log, "sleep") = 2 * (DownloadMaxRetries - 1)

\* a call of func made by retry_with_backoff has just returned or raised
RwbCallEnded ==
  /\ mode \in {"batch", "retry"}
  /\ pc = (IF mode = "retry" THEN "func_done" ELSE "tr_done")

\* C25: retry_with_backoff returns the result of the first call of func that
\* does not raise and makes no further call after it; if every one of the
\* max_retries calls raises an OpenAI error it raises the exception of the last
\* call; if a call raises any other exception it re-raises that exception at
\* once without sleeping or calling func again.
C25_RetryOutcomes ==
  /\ [][RwbCallEnded =>
          IF ret.kind = "raise" /\ ret.etype \in OpenAIErrors
               /\ Count(rwb.log, "call") < rwb.max_retries
          THEN pc' = "rwb_sleep" /\ ret' = ret /\ rwb' = rwb
          ELSE /\ pc' = "rwb_done" /\ ret' = ret /\ rwb' = rwb
               /\ sleeping' = 0
               /\ ret.kind = "raise" /\ ret.etype \in OpenAIErrors =>
                    Count(rwb.log, "call") = rwb.max_retries]_vars
  /\ [][pc = "rwb_done" =>
          /\ Count(rwb'.log, "call") <= Count(rwb.log, "call")
          /\ Len(rwb'.slept) <= Len(rwb.slept)
          /\ pc' \notin {"func", "tr_enter", "tr_api", "rwb_loop", "rwb_sleep"}]_vars
  /\ [](pc = "rwb_done" /\ ret.kind = "return" =>
          /\ rwb.log # <<>> /\ rwb.log[Len(rwb.log)] = "call"
          /\ Count(rwb.log, "sleep") = Count(rwb.log, "call") - 1)
  /\ [](pc = "rwb_done" /\ ret.kind = "raise" /\ ret.etype \notin OpenAIErrors =>
          /\ rwb.log # <<>> /\ rwb.log[Len(rwb.log)] = "call"
          /\ sleeping = 0)

\* retry_with_backoff has returned the result of its third call after two
\* calls that raised an OpenAI error
C25_Witness ==
  /\ mode = "retry" /\ pc = "rwb_done" /\ ret.kind = "return"
  /\ rwb.log = <<"call", "sleep", "call", "sleep", "call">>

\* the place of a step of download_youtube_audio in the order of its methods
\* (0 for what is part of an attempt: a failure, a sleep, the stream download)
MethodRank(tok) ==
  CASE tok = "yt-dlp" -> 1
    [] tok = "lookup:direct" -> 2
    [] tok = "lookup:alternative" -> 3
    [] tok \in FallbackWrites -> 4
    [] tok \in {"emergency_write", "emergency_write_failed"} -> 5
    [] OTHER -> 0

AttemptFailures == {"transient", "nonretryable"}

\* C26: download_youtube_audio tries its methods in a fixed order (yt-dlp if
\* available, then pytube 'direct', then pytube 'alternative') and returns at
\* the first success without trying a later method; the fallback audio file is
\* created only after every method has failed, and the emergency fallback file
\* only after creation of the fallback file has failed.
C26_MethodOrder ==
  pc \in DlPcs =>
    /\ \A i \in 1..Len(log) : \A j \in i..Len(log) :
         MethodRank(log[i]) # 0 /\ MethodRank(log[j]) # 0
           => MethodRank(log[i]) <= MethodRank(log[j])
    /\ \A i \in 1..Len(log) :
         /\ log[i] = "yt-dlp" => i = 1
         /\ log[i] = "stream_download" =>
              i = Len(log) /\ pc = "dl_done" /\ ret.kind = "return"
         /\ log[i] \in Lookups /\ i < Len(log) =>
              log[i+1] \in AttemptFailures \cup {"stream_download"}
         /\ log[i] \in Lookups /\ i = Len(log) =>
              pc = "dl_done" /\ ret.kind = "return" /\ log[i] = "lookup:direct"
         /\ log[i] = "lookup:alternative" =>
              /\ "lookup:direct" \in Range(SubSeq(log, 1, i - 1))
              /\ log[i-1] \in AttemptFailures \cup {"sleep"}
         /\ log[i] \in FallbackWrites =>
              /\ "lookup:direct" \in Range(SubSeq(log, 1, i - 1))
              /\ "lookup:alternative" \in Range(SubSeq(log, 1, i - 1))
              /\ log[i-1] \in AttemptFailures
              /\ Count(log, "fallback_write") + Count(log, "fallback_write_failed") = 1
         /\ MethodRank(log[i]) = 5 => log[i-1] = "fallback_write_failed"
    /\ log = <<"yt-dlp">> /\ pc = "dl_done" => ret.kind = "return"
    /\ pc = "dl_fallback" => log # <<>> /\ log[Len(log)] \in AttemptFailures

\* the download has returned the emergency file after yt-dlp, both pytube
\* methods and the fallback file failed
C26_Witness ==
  /\ pc = "dl_done" /\ ret.kind = "return" /\ ret.path = EmergencyPath
  /\ log[1] = "yt-dlp"
  /\ {"lookup:direct", "lookup:alternative", "emergency_write"} \subseteq Range(log)

\* no transcript file existed when the invocation began: the first URL of a
\* batch (which starts on EmptyFs), or a single run for a video other than the
\* one LeftoverFs holds a transcript of
NoTranscriptBefore ==
  \/ mode = "batch" /\ idx = 1
  \/ mode \in GraphModes /\ urls[1] # UrlA

\* the download stage of the invocation returned the fallback placeholder
DownloadReturnedFallback ==
  /\ Len(stages) >= 2
  /\ stages[2] = <<"download", "return", FallbackPath(VideoId(st.youtube_url))>>

\* the text is one create_mock_summary writes (lines 114-129)
WrittenByMockSummary(text) ==
  text # <<>> /\ text[1] = "This is a mock summary for testing purposes."

\* C27: if the download stage returns the fallback placeholder and no
\* transcript file exists for it, the transcription API and the summarization
\* model are each called zero times in that invocation, the transcript and
\* the summary are mock placeholders, and the pipeline ends with error empty.
C27_FallbackRunsOnMocks ==
  InvocationEnded /\ NoTranscriptBefore /\ DownloadReturnedFallback =>
    /\ calls.api = 0
    /\ calls.llm = 0
    /\ WrittenByMockTranscript(st.transcript_text)
    /\ WrittenByMockSummary(st.summary)
    /\ st.error = <<>>

\* C28: transcribe_audio and summarize_text return a (path, text) pair for
\* every failure of their external call or of their file and directory
\* operations; neither propagates an exception to the stage that called it
\* (a call that cannot bind its arguments never enters the function and is
\* left out).
C28_UtilitiesNeverRaise ==
  /\ pc = "tr_done" => ret.kind = "return"
  /\ pc = "sum_done" /\ SummarizeKeywords \subseteq SummarizeTextParams =>
       ret.kind = "return"

\* the keys a node overrides in the state it returns on success
NodeOutputs ==
  [download      |-> {"audio_file_path"},
   transcription |-> {"transcript_file", "transcript_text"},
   summarization |-> {"summary"}]

\* the keys a node may have changed in the step from state s to state t: its
\* outputs and current_step if its call returned, error and current_step if it
\* raised
NodeWrote(s, t, stage, r) ==
  /\ DOMAIN t = DOMAIN s
  /\ \A f \in DOMAIN s :
       t[f] # s[f] =>
         f \in (IF r.kind = "raise" THEN {"error"} ELSE NodeOutputs[stage])
                 \cup {"current_step"}

\* C29: each stage node writes only its own output fields plus current_step
\* and error: youtube_downloader never changes the transcript or summary
\* fields, audio_transcriber never changes audio_file_path or summary,
\* content_summarizer never changes audio_file_path, transcript_file or
\* transcript_text; a node that fails changes only error and current_step.
C29_NodeFrames ==
  [][st' # st /\ mode \in GraphModes /\ pc \in {"dl_done", "tr_done", "sum_done"}
       => /\ NodeWrote(st, st', StageOf(pc), ret)
          /\ ret.kind = "raise" => Truthy(st'.error) /\ st'.current_step = "end"]_vars

\* audio_transcriber has returned the state of a failed transcription: the
\* path of the downloaded audio is still in it
C29_Witness ==
  /\ mode \in GraphModes /\ pc = "route"
  /\ Len(stages) = 4 /\ stages[4] = <<"transcription", "raise", <<>>>>
  /\ st.audio_file_path = stages[2][3] /\ Truthy(st.audio_file_path)
  /\ st.current_step = "end"

\* the number of times a stage has been started in the running invocation
Executions(stage) ==
  Cardinality({i \in 1..Len(stages) : stages[i] = <<stage, "start", <<>>>>})

\* C30: every pipeline invocation terminates, given that each capability call
\* returns or raises: each of the three stages executes at most once, the
\* graph reaches END after at most three node executions, and the final state
\* always has current_step = "end", with or without error.
C30_Terminates ==
  /\ <>(pc = "returned")
  /\ [](mode \in PipelineModes =>
          /\ \A k \in 1..3 : Executions(StageOrder[k]) <= 1
          /\ Len(StageStarts) <= 3
          /\ pc = "END" => Len(StageStarts) \in 1..3
          /\ InvocationEnded => st.current_step = "end"
          /\ \A i \in 1..Len(results) : results[i].current_step = "end")

\* the graph has reached END after three node executions
C30_Witness ==
  /\ mode \in GraphModes /\ pc = "returned" /\ outcome = "state"
  /\ Len(StageStarts) = 3 /\ st.current_step = "end"

\* the fields of a result that hold what the stages produced
OutputFields == {"audio_file_path", "transcript_text", "transcript_file", "summary"}

\* C31: with use_mock = True, process_youtube_urls makes no download,
\* transcription or summarization call for any URL, and every result it
\* returns has error empty, current_step "end" and non-empty audio_file_path,
\* transcript_text, transcript_file and summary.
C31_MockBatch ==
  mode = "batch" /\ use_mock =>
    /\ pc \notin DlPcs \cup TrPcs \cup SumPcs
    /\ stages = <<>> /\ log = <<>> /\ rwb = NoRwb
    /\ calls = NoCalls
    /\ fs = EmptyFs
    /\ \A i \in 1..Len(results) :
         /\ results[i].error = <<>>
         /\ results[i].current_step = "end"
         /\ \A f \in OutputFields : Truthy(results[i][f])
         /\ results[i] = MockResult(urls[i], Prompt, i - 1)
    /\ pc = "returned" /\ outcome = "results" => Len(results) = Len(urls)

\* a mock batch of two URLs has returned its two results
C31_Witness ==
  /\ mode = "batch" /\ use_mock /\ pc = "returned" /\ outcome = "results"
  /\ Len(results) = 2
  /\ results[2].audio_file_path = <<"mock_audio_", "1", ".mp3">>

\* C32: retry_with_backoff calls func at least once and either returns
\* func's result or raises, for every value of max_retries including 0 and
\* negative values; it never returns without having called func.
C32_AlwaysCallsFunc ==
  pc = "rwb_done" =>
    /\ Count(rwb.log, "call") >= 1
    /\ ret.kind \in {"return", "raise"}

====
